---- MODULE Spec2Model ----
(***************************************************************************)
(* The CDC ingestion pipeline of the catalog service: the Debezium message *)
(* parser (src/infra/kafka/parser.py), the consumer loop                    *)
(* (src/infra/kafka/consumer.py), the event-handler dispatch                *)
(* (src/_shared/infra/kafka/event_handler.py), the video handler            *)
(* (src/infra/kafka/video_event_handler.py), the SaveVideo use case         *)
(* (src/application/save_video.py), the video index upsert                 *)
(* (src/infra/elasticsearch/elasticsearch_video_repository.py), and the     *)
(* read side: the search of the Elasticsearch repositories                  *)
(* (src/infra/elasticsearch/, src/elasticsearch_category_repository.py).    *)
(***************************************************************************)
EXTENDS Integers, Sequences, FiniteSets, TLC

\* ------------------------------------------------------------------------
\* Bounds of the model
\* ------------------------------------------------------------------------
\* longest topic log (number of CDC messages ever produced)
MaxLog == 2
\* number of times the consumer process is started again
MaxRestarts == 1
\* most documents of an index that match a search
MaxHits == 3
\* largest page number and page size a search is called with
MaxPage == 3
MaxPerPage == 3

\* ------------------------------------------------------------------------
\* Values
\* ------------------------------------------------------------------------
\* a dict key that is not there
Absent == "absent"

VideoIds == {"v1", "v2"}

\* enums.Rating: the values the StrEnum accepts
Rating == {"ER", "L", "AGE_10", "AGE_12", "AGE_14", "AGE_16", "AGE_18"}

\* enums.Operation: value -> member
Operation ==
    ("c" :> "CREATE") @@ ("u" :> "UPDATE") @@ ("d" :> "DELETE") @@ ("r" :> "READ")

\* parser.table_to_entity
table_to_entity ==
    ("categories" :> "Category") @@ ("cast_members" :> "CastMember")
        @@ ("genres" :> "Genre") @@ ("videos" :> "Video")

entity_to_handler_with_category ==
    ("Video" :> "VideoEventHandler") @@ ("Category" :> "VideoEventHandler")

\* consumer.entity_to_handler: only Video has a handler
entity_to_handler == ("Video" :> "VideoEventHandler")

\* ------------------------------------------------------------------------
\* Raw CDC messages.  A row image is the "after"/"before" value of the
\* Debezium envelope: the key may be absent, hold null, or hold a row.
\* A row carries the scalar columns the handler reads; Absent marks a
\* column that is missing from the row.
\* ------------------------------------------------------------------------
NoRow ==
    [id |-> Absent, title |-> Absent, launch_year |-> Absent, rating |-> Absent,
     created_at |-> Absent, updated_at |-> Absent, is_active |-> Absent]

\* the row of video i in its version t: the later version "t2" of a row
\* differs from "t1" in title, updated_at and is_active as well
Row(i, t, r) ==
    [id |-> i, title |-> t, launch_year |-> "y1", rating |-> r,
     created_at |-> "d1", updated_at |-> IF t = "t1" THEN "d1" ELSE "d2",
     is_active |-> IF t = "t1" THEN "true" ELSE "false"]

AbsentImage == [st |-> "absent", row |-> NoRow]
NullImage == [st |-> "null", row |-> NoRow]
RowImage(row) == [st |-> "row", row |-> row]

\* The bytes of a message value:
\*   bytes   "None" (value() is None), "empty" (b""), "data"
\*   enc     "utf8" | "bad"      whether data.decode("utf-8") succeeds
\*   top     "invalid" (text is not JSON) | "object" | "other" (JSON, but the
\*           top level is a list, string, number or null)
\*   payload / source   "absent" | "object" | "other"  (the value under the key)
\*   table / op         the string under the key, or Absent
\*   after / before     row images
Data(enc, top, payload, source, table, op, after, before) ==
    [bytes |-> "data", enc |-> enc, top |-> top, payload |-> payload,
     source |-> source, table |-> table, op |-> op,
     after |-> after, before |-> before]

\* a well-formed Debezium envelope
Envelope(table, op, after, before) ==
    Data("utf8", "object", "object", "object", table, op, after, before)

NoData(b) ==
    [bytes |-> b, enc |-> "utf8", top |-> "invalid", payload |-> "absent",
     source |-> "absent", table |-> Absent, op |-> Absent,
     after |-> AbsentImage, before |-> AbsentImage]

\* ------------------------------------------------------------------------
\* parser.parse_debezium_message
\* ------------------------------------------------------------------------
\* ParsedEvent; NoEvent stands for the value None
ParsedEvent(entity, operation, payload) ==
    [entity |-> entity, operation |-> operation, payload |-> payload]
NoEvent == ParsedEvent("None", "None", AbsentImage)

\* result of a call: ret = "event" (a ParsedEvent is returned), "None"
\* (None is returned) or "raise" (exception exc escapes the call);
\* errors = number of logger.error calls made
Returned(ev) == [ret |-> "event", exc |-> "", event |-> ev, errors |-> 0]
ReturnedNoneSilent == [ret |-> "None", exc |-> "", event |-> NoEvent, errors |-> 0]
ReturnedNone == [ret |-> "None", exc |-> "", event |-> NoEvent, errors |-> 1]
Raised(e) == [ret |-> "raise", exc |-> e, event |-> NoEvent, errors |-> 0]

SelectImageSwapped(data, operation) ==
    IF operation # "DELETE" THEN data.before ELSE data.after

\* payload = after if operation != DELETE else before
SelectImage(data, operation) ==
    IF operation # "DELETE" THEN data.after ELSE data.before

parse_debezium_message(data) ==
    \* json.loads(data.decode("utf-8")): only JSONDecodeError is caught
    IF data.enc = "bad" THEN Raised("UnicodeDecodeError")
    ELSE IF data.top = "invalid" THEN ReturnedNone
    \* json_data["payload"]["source"]["table"]: subscripting a non-dict
    \* raises TypeError, which the except clause does not name
    ELSE IF data.top # "object" THEN Raised("TypeError")
    ELSE IF data.payload = "absent" THEN ReturnedNone
    ELSE IF data.payload # "object" THEN Raised("TypeError")
    ELSE IF data.source = "absent" THEN ReturnedNone
    ELSE IF data.source # "object" THEN Raised("TypeError")
    ELSE IF data.table \notin DOMAIN table_to_entity THEN ReturnedNone
    \* Operation(json_data["payload"]["op"]): KeyError or ValueError
    ELSE IF data.op \notin DOMAIN Operation THEN ReturnedNone
    ELSE LET operation == Operation[data.op]
             image == SelectImage(data, operation)
         IN IF image.st = "absent" THEN ReturnedNone
            ELSE Returned(ParsedEvent(table_to_entity[data.table], operation, image))

\* ------------------------------------------------------------------------
\* The topic, the enrichment service and the video index
\* ------------------------------------------------------------------------
\* message values the upstream CDC stream can carry
VideoEnvelopes ==
    { Envelope("videos", "c", RowImage(Row("v1", "t1", "L")), NullImage),
      Envelope("videos", "u", RowImage(Row("v1", "t2", "AGE_18")),
               RowImage(Row("v1", "t1", "L"))),
      Envelope("videos", "c", RowImage(Row("v2", "t1", "L")), NullImage),
      Envelope("videos", "c", RowImage(Row("v1", "t1", "XX")), NullImage),
      Envelope("videos", "c", NullImage, NullImage),
      Envelope("videos", "d", NullImage, RowImage(Row("v1", "t1", "L"))),
      Envelope("videos", "r", RowImage(Row("v1", "t1", "L")), NullImage) }

TopicValues ==
    VideoEnvelopes \cup
    { NoData("None"),
      Data("utf8", "invalid", "absent", "absent", Absent, Absent,
           AbsentImage, AbsentImage),
      Data("bad", "invalid", "absent", "absent", Absent, Absent,
           AbsentImage, AbsentImage),
      Envelope("videos", "x", RowImage(Row("v1", "t1", "L")), NullImage),
      Envelope("categories", "c", RowImage(Row("v1", "t1", "L")), NullImage),
      Envelope("cast_members", "u", RowImage(Row("v1", "t1", "L")), NullImage),
      Envelope("genres", "d", NullImage, RowImage(Row("v1", "t1", "L"))) }

\* what client.poll hands to consume: None, an error event, or a message
NoMessage == [kind |-> "None", offset |-> 0, value |-> NoData("None")]
ErrorMessage == [kind |-> "error", offset |-> 0, value |-> NoData("None")]
Message(o, v) == [kind |-> "message", offset |-> o, value |-> v]

\* VideoResponse of the enrichment client
\* the response lists the related entities (only their ids matter here),
\* and carries scalar fields of its own
Response(categories, cast_members, genres, banner) ==
    [id |-> "rv", title |-> "rt", launch_year |-> "ry", rating |-> "ER",
     is_active |-> "true", categories |-> categories,
     cast_members |-> cast_members, genres |-> genres, banner |-> banner]

\* no response fetched (yet)
NoResponse == Response(<<>>, <<>>, <<>>, Absent)

\* answers the enrichment service can give
Responses ==
    { Response(<<>>, <<>>, <<>>, "b1"),
      Response(<<"c1">>, <<"m1">>, <<"g1">>, "b1"),
      Response(<<"c1", "c2">>, <<>>, <<"g1">>, "b2"),
      Response(<<"c2", "c2">>, <<"m1">>, <<>>, "b2") }

\* a document of the video index; NoDoc: no document under that id
NoDoc ==
    [id |-> Absent, title |-> Absent, launch_year |-> Absent, rating |-> Absent,
     created_at |-> Absent, updated_at |-> Absent, is_active |-> Absent,
     categories |-> {}, cast_members |-> {}, genres |-> {}, banner |-> Absent]

Range(seq) == { seq[i] : i \in DOMAIN seq }

\* ------------------------------------------------------------------------
\* event_handler.AbstractEventHandler.__call__
\* ------------------------------------------------------------------------
DispatchAlwaysCreated(operation) == "handle_created"

DispatchUpdateAsDeleted(operation) ==
    CASE operation = "CREATE" -> "handle_created"
      [] operation \in {"UPDATE", "DELETE"} -> "handle_deleted"
      [] OTHER -> "unknown"

DispatchDeleteAsUpdated(operation) ==
    CASE operation = "CREATE" -> "handle_created"
      [] operation \in {"UPDATE", "DELETE"} -> "handle_updated"
      [] OTHER -> "unknown"

Dispatch(operation) ==
    CASE operation = "CREATE" -> "handle_created"
      [] operation = "UPDATE" -> "handle_updated"
      [] operation = "DELETE" -> "handle_deleted"
      [] OTHER -> "unknown"

\* ------------------------------------------------------------------------
\* video_event_handler.VideoEventHandler._handle_update_or_create:
\* building the SaveVideoInput from the event payload
\* ------------------------------------------------------------------------
NoInput == NoRow

SaveVideoInputUnchecked(payload) ==
    [ret |-> "ok", exc |-> "", input |-> payload.row]

SaveVideoInput(payload) ==
    \* event.payload["id"] on None
    IF payload.st # "row" THEN [ret |-> "raise", exc |-> "TypeError", input |-> NoInput]
    ELSE IF Absent \in { payload.row[k] : k \in DOMAIN payload.row }
        THEN [ret |-> "raise", exc |-> "KeyError", input |-> NoInput]
    \* Rating(event.payload["rating"])
    ELSE IF payload.row.rating \notin Rating
        THEN [ret |-> "raise", exc |-> "ValueError", input |-> NoInput]
    ELSE [ret |-> "ok", exc |-> "", input |-> payload.row]

\* ------------------------------------------------------------------------
\* save_video.SaveVideo.execute: the Video built from input and response
\* ------------------------------------------------------------------------
BuildVideoFromResponse(video_input, data) ==
    [id |-> video_input.id, title |-> data.title,
     launch_year |-> data.launch_year, rating |-> data.rating,
     created_at |-> video_input.created_at,
     updated_at |-> video_input.updated_at,
     is_active |-> data.is_active,
     categories |-> Range(data.categories),
     cast_members |-> Range(data.cast_members),
     genres |-> Range(data.genres),
     banner |-> data.banner]

BuildVideo(video_input, data) ==
    [id |-> video_input.id, title |-> video_input.title,
     launch_year |-> video_input.launch_year, rating |-> video_input.rating,
     created_at |-> video_input.created_at,
     updated_at |-> video_input.updated_at,
     is_active |-> video_input.is_active,
     categories |-> Range(data.categories),
     cast_members |-> Range(data.cast_members),
     genres |-> Range(data.genres),
     banner |-> data.banner]

\* an index call without id: the document goes under a fresh key
SaveToIndexAutoId(idx, video) ==
    LET free == { k \in DOMAIN idx : idx[k] = NoDoc } IN
        IF free = {} THEN idx
        ELSE [idx EXCEPT ![CHOOSE k \in free : TRUE] = video]

\* a partial update that adds the related ids to the stored ones
SaveToIndexMerging(idx, video) ==
    [idx EXCEPT ![video.id] =
        [video EXCEPT !.categories = @ \cup idx[video.id].categories,
                      !.cast_members = @ \cup idx[video.id].cast_members,
                      !.genres = @ \cup idx[video.id].genres]]

\* elasticsearch_video_repository.save: index(id=str(video.id), body=dump)
SaveToIndex(idx, video) == [idx EXCEPT ![video.id] = video]

\* ------------------------------------------------------------------------
\* The read side: search of the Elasticsearch repositories
\* ------------------------------------------------------------------------
\* the _source of a stored document:
\*   id          the value under "id", or Absent
\*   fields      "ok" | "bad": whether the other fields pass the entity's
\*               validation
\*   categories  "stored" | "absent": whether a genre document holds a
\*               "categories" key of its own
Source(id, fields, categories) ==
    [id |-> id, fields |-> fields, categories |-> categories]

\* documents an index can hold: two valid ones, one with only a name (no
\* id), one with an id and a field that does not validate
EntityDocs ==
    { Source("e1", "ok", "absent"), Source("e2", "ok", "absent"),
      Source(Absent, "ok", "absent"), Source("e3", "bad", "absent") }

\* the genre index also holds documents written from a Genre dump, which
\* carries the categories of the genre
GenreDocs == EntityDocs \cup { Source("e1", "ok", "stored") }

\* documents of the genre-categories association index
Association(genre_id, category_id) ==
    [genre_id |-> genre_id, category_id |-> category_id]

Associations ==
    { {},
      { Association("e1", "c1") },
      { Association("e1", "c1"), Association("e1", "c2"),
        Association("e3", "c1") } }

\* the entity built from a document
Entity(source, categories) == [id |-> source.id, categories |-> categories]

\* outcome of a search call: the entities returned, the logger.error calls
\* made, the exception that left it, and the from/size of the query body
SearchReturned(parsed_entities, errors) ==
    [ret |-> "ok", exc |-> "", entities |-> parsed_entities, errors |-> errors,
     body |-> <<>>]
SearchRaised(e, errors) ==
    [ret |-> "raise", exc |-> e, entities |-> <<>>, errors |-> errors,
     body |-> <<>>]
NoResult ==
    [ret |-> "none", exc |-> "", entities |-> <<>>, errors |-> 0, body |-> <<>>]

\* Model(**hit["_source"]) raises no ValidationError
Validates(source) == source.id # Absent /\ source.fields = "ok"

FromPageTimesSize(page, per_page) == page * per_page

\* "from": (page - 1) * per_page
From(page, per_page) == (page - 1) * per_page

\* "size": per_page
Size(page, per_page) == per_page

\* Elasticsearch: the window [from, from + size) of the ordered match list
EsSearch(matches, from, size) ==
    SubSeq(matches, from + 1,
           IF from + size < Len(matches) THEN from + size ELSE Len(matches))

\* the repositories whose query body carries from and size; the search of
\* src/elasticsearch_category_repository.py sends an empty body
Paginated == {"cast_member", "genre", "video"}

Body(q) ==
    IF q.repo \in Paginated
    THEN <<From(q.page, q.per_page), Size(q.page, q.per_page)>>
    ELSE <<>>

\* response["hits"]["hits"]: with an empty body Elasticsearch answers with
\* its first default page, which holds every match of an index this small
Hits(q) ==
    IF Body(q) = <<>> THEN q.matches
    ELSE EsSearch(q.matches, Body(q)[1], Body(q)[2])

RECURSIVE ParseHitsFailFast(_, _, _)
ParseHitsFailFast(hits, parsed_entities, errors) ==
    IF hits = <<>> THEN SearchReturned(parsed_entities, errors)
    ELSE IF Validates(Head(hits))
    THEN ParseHitsFailFast(Tail(hits),
                           Append(parsed_entities, Entity(Head(hits), {})), errors)
    ELSE SearchRaised("ValidationError", errors)

\* the loop over the hits: a document that fails validation is logged and
\* skipped, a valid one is appended
RECURSIVE ParseHits(_, _, _)
ParseHits(hits, parsed_entities, errors) ==
    IF hits = <<>> THEN SearchReturned(parsed_entities, errors)
    ELSE IF Validates(Head(hits))
    THEN ParseHits(Tail(hits),
                   Append(parsed_entities, Entity(Head(hits), {})), errors)
    ELSE ParseHits(Tail(hits), parsed_entities, errors + 1)

\* fetch_categories_for_genres: a DefaultDict genre id -> category ids of
\* the association documents whose genre_id is among genre_ids
fetch_categories_for_genres(assoc, genre_ids) ==
    [g \in {"e1", "e2", "e3"} |->
        { a.category_id : a \in { x \in assoc : x.genre_id = g /\ g \in genre_ids } }]

\* the genre loop: Genre(**source, categories=categories) is a call with
\* the keyword categories given twice when the document stores one, a
\* TypeError that the except clause does not name
RECURSIVE ParseGenreHits(_, _, _, _)
ParseGenreHits(hits, categories_for_genres, parsed_genres, errors) ==
    IF hits = <<>> THEN SearchReturned(parsed_genres, errors)
    ELSE LET genre == Head(hits) IN
        IF genre.categories = "stored" THEN SearchRaised("TypeError", errors)
        ELSE IF Validates(genre)
        THEN ParseGenreHits(Tail(hits), categories_for_genres,
                            Append(parsed_genres,
                                   Entity(genre, categories_for_genres[genre.id])),
                            errors)
        ELSE ParseGenreHits(Tail(hits), categories_for_genres, parsed_genres,
                            errors + 1)

\* ElasticsearchGenreRepository.search after the query: the ids are read
\* from every hit before the loop, outside any try
GenreSearch(hits, assoc) ==
    IF \E i \in DOMAIN hits : hits[i].id = Absent
    THEN SearchRaised("KeyError", 0)
    ELSE ParseGenreHits(hits,
            fetch_categories_for_genres(assoc, { hits[i].id : i \in DOMAIN hits }),
            <<>>, 0)

\* search of repository q.repo; only the video repository catches the
\* NotFoundError of a missing index
search(q) ==
    LET result ==
            IF ~q.exists
            THEN IF q.repo = "video" THEN SearchReturned(<<>>, 1)
                 ELSE SearchRaised("NotFoundError", 0)
            ELSE IF q.repo = "genre" THEN GenreSearch(Hits(q), q.assoc)
            ELSE ParseHits(Hits(q), <<>>, 0)
    IN [result EXCEPT !.body = Body(q)]

\* a search call: the repository, its arguments, and what the indices hold
Request(repo, page, per_page, exists, matches, assoc) ==
    [repo |-> repo, page |-> page, per_page |-> per_page, exists |-> exists,
     matches |-> matches, assoc |-> assoc]

NoRequest == Request("none", 1, 1, FALSE, <<>>, {})

Repositories == {"category", "cast_member", "genre", "video"}

\* what the index of a repository can hold, and what the association
\* index holds beside it (read by the genre search only)
DocsOf(repo) == IF repo = "genre" THEN GenreDocs ELSE EntityDocs
AssociationsOf(repo) == IF repo = "genre" THEN Associations ELSE { {} }

\* ------------------------------------------------------------------------
\* consumer.Consumer
\* ------------------------------------------------------------------------
VARIABLES
    log,              \* the topic partition: the message values produced so far
    position,         \* offset of the next message poll fetches
    committedOffset,  \* the consumer group's committed offset at the broker
    committed,        \* offsets of the messages client.commit was called with
    upserted,         \* ids whose index call has completed
    pc,               \* where the consumer process is
    message,          \* consume's local: the polled message
    parsed_event,     \* consume's local: the parser's result
    http_data,        \* execute's local: the enrichment client's answer
    video,            \* execute's local: the Video about to be saved
    index,            \* the video index: id -> document
    calls,            \* the calls made by the current/last consume call, in order
    closeCalls,       \* number of client.close calls of this process
    startResult,      \* "running", or how start ended: "returned" | "raised"
    exc,              \* the exception that left consume, "" if none
    restarts,         \* number of process restarts so far
    request,          \* the read side: arguments and index of a search call
    response,         \* the read side: what the search call gave back
    previous          \* history: the document the upsert of this consume call replaced

vars ==
    <<log, position, committedOffset, committed, upserted, pc, message,
      parsed_event, http_data, video, index, calls, closeCalls, startResult,
      exc, restarts,
                   request, response, previous>>

\* except clauses of start: these exceptions end start normally
StartCatchesNothing == {}

StartCatches == {"KeyboardInterrupt", "KafkaException"}

Init ==
    /\ log = <<>>
    /\ position = 1
    /\ committedOffset = 1
    /\ committed = {}
    /\ upserted = {}
    /\ pc = "loop"
    /\ message = NoMessage
    /\ parsed_event = NoEvent
    /\ http_data = NoResponse
    /\ video = NoDoc
    /\ index = [v \in VideoIds |-> NoDoc]
    /\ calls = <<>>
    /\ closeCalls = 0
    /\ startResult = "running"
    /\ exc = ""
    /\ restarts = 0
    /\ request = NoRequest
    /\ response = NoResult
    /\ previous = NoDoc

\* stop called from the except clauses only, not from a finally clause
LeaveWithoutFinally(e) ==
    /\ pc' = "stopped"
    /\ exc' = e
    /\ closeCalls' = IF e \in StartCatches THEN closeCalls + 1 ELSE closeCalls
    /\ startResult' = IF e \in StartCatches THEN "returned" ELSE "raised"

\* start, lines 77-85: exception e leaves the while loop; the matching
\* except clause (if any) logs, the finally clause calls stop -> client.close
Leave(e) ==
    /\ pc' = "stopped"
    /\ exc' = e
    /\ closeCalls' = closeCalls + 1
    /\ startResult' = IF e \in StartCatches THEN "returned" ELSE "raised"

Running == pc \notin {"stopped", "crashed"}

NeverEmpty(message_data) == FALSE

\* consume, line 117: not message_data (None or b"")
IsEmpty(message_data) == message_data.bytes # "data"

NoNoneCheck(ret) == IF ret = "raise" THEN "raise" ELSE "parsed"

\* consume, lines 122-125: where consume goes with the parser's result
AfterParse(ret) ==
    CASE ret = "None" -> "loop"
      [] ret = "event" -> "parsed"
      [] OTHER -> "raise"

\* consume, lines 107-110: poll returns None
PollNone ==
    /\ pc = "loop"
    /\ message' = NoMessage
    /\ calls' = <<"poll", "info:no_message">>
    /\ parsed_event' = NoEvent
    /\ http_data' = NoResponse
    /\ video' = NoDoc
    /\ previous' = NoDoc
    /\ UNCHANGED <<log, position, committedOffset, committed, upserted, pc,
                   index, closeCalls, startResult, exc, restarts,
                   request, response>>

\* consume, lines 107-114: poll returns a message carrying an error
PollError ==
    /\ pc = "loop"
    /\ message' = ErrorMessage
    /\ calls' = <<"poll", "error:message_error">>
    /\ parsed_event' = NoEvent
    /\ http_data' = NoResponse
    /\ video' = NoDoc
    /\ previous' = NoDoc
    /\ UNCHANGED <<log, position, committedOffset, committed, upserted, pc,
                   index, closeCalls, startResult, exc, restarts,
                   request, response>>

\* consume, lines 107-121: poll returns the next message of the partition
\* (the upstream stream produces it if the log ends here); an empty value
\* makes consume return, any other value goes on to the parser
PollMessage ==
    /\ pc = "loop"
    /\ \E v \in TopicValues :
        /\ IF position <= Len(log)
              THEN v = log[position] /\ log' = log
              ELSE Len(log) < MaxLog /\ log' = Append(log, v)
        /\ message' = Message(position, v)
        /\ position' = position + 1
        /\ IF IsEmpty(v)
              THEN /\ calls' = <<"poll", "info:empty_message">>
                   /\ pc' = "loop"
              ELSE /\ calls' = <<"poll", "info:received">>
                   /\ pc' = "received"
    /\ parsed_event' = NoEvent
    /\ http_data' = NoResponse
    /\ video' = NoDoc
    /\ previous' = NoDoc
    /\ UNCHANGED <<committedOffset, committed, upserted, index, closeCalls,
                   startResult, exc, restarts,
                   request, response>>

\* consume, line 107: poll raises KafkaException
PollRaises ==
    /\ pc = "loop"
    /\ calls' = <<"poll">>
    /\ message' = NoMessage
    /\ parsed_event' = NoEvent
    /\ http_data' = NoResponse
    /\ video' = NoDoc
    /\ previous' = NoDoc
    /\ Leave("KafkaException")
    /\ UNCHANGED <<log, position, committedOffset, committed, upserted, index,
                   restarts,
                   request, response>>

\* the logger.error calls the parser made during call r
ParserLog(r) == [i \in 1 .. r.errors |-> "parser:error"]

\* consume, lines 122-125: the parser is called
Parse ==
    /\ pc = "received"
    /\ LET r == parse_debezium_message(message.value)
           next == AfterParse(r.ret)
       IN
        /\ parsed_event' = r.event
        /\ CASE next = "loop" ->
                  /\ calls' = calls \o <<"parser">> \o ParserLog(r)
                                  \o <<"error:failed_to_parse">>
                  /\ pc' = "loop"
                  /\ UNCHANGED <<closeCalls, startResult, exc>>
             [] next = "parsed" ->
                  /\ calls' = calls \o <<"parser">> \o ParserLog(r)
                  /\ pc' = "parsed"
                  /\ UNCHANGED <<closeCalls, startResult, exc>>
             [] OTHER ->
                  /\ calls' = calls \o <<"parser">> \o ParserLog(r)
                  /\ Leave(r.exc)
    /\ UNCHANGED <<log, position, committedOffset, committed, upserted, message,
                   http_data, video, index, restarts,
                   request, response, previous>>

\* consume, lines 127-129, down to the first remote call of the handler:
\* router lookup, handler construction, __call__ dispatch and, for
\* create/update, the construction of the SaveVideoInput
CallHandler ==
    /\ pc = "parsed"
    /\ IF parsed_event.entity \notin DOMAIN entity_to_handler
       THEN \* self.router[parsed_event.entity] raises KeyError
            /\ calls' = calls
            /\ Leave("KeyError")
       ELSE LET method == Dispatch(parsed_event.operation)
                built == SaveVideoInput(parsed_event.payload)
            IN CASE method \in {"handle_created", "handle_updated"} ->
                      IF built.ret = "ok"
                      THEN /\ calls' = calls \o <<"handler", method>>
                           /\ pc' = "get_video"
                           /\ UNCHANGED <<closeCalls, startResult, exc>>
                      ELSE /\ calls' = calls \o <<"handler", method>>
                           /\ Leave(built.exc)
                 [] method = "handle_deleted" ->
                      /\ calls' = calls \o <<"handler", method, "handler_return">>
                      /\ pc' = "handled"
                      /\ UNCHANGED <<closeCalls, startResult, exc>>
                 [] OTHER ->
                      /\ calls' = calls \o
                            <<"handler", "info:unknown_operation", "handler_return">>
                      /\ pc' = "handled"
                      /\ UNCHANGED <<closeCalls, startResult, exc>>
    /\ UNCHANGED <<log, position, committedOffset, committed, upserted, message,
                   parsed_event, http_data, video, index, restarts,
                   request, response, previous>>

\* SaveVideo.execute, lines 52-64: get_video answers and the Video is built
GetVideo ==
    /\ pc = "get_video"
    /\ \E data \in Responses :
        /\ http_data' = data
        /\ video' = BuildVideo(SaveVideoInput(parsed_event.payload).input, data)
    /\ calls' = Append(calls, "get_video")
    /\ pc' = "save"
    /\ UNCHANGED <<log, position, committedOffset, committed, upserted, message,
                   parsed_event, index, closeCalls, startResult, exc, restarts,
                   request, response, previous>>

\* a handler that swallows the failure of get_video and returns
GetVideoFaultSwallowed ==
    /\ pc = "get_video"
    /\ calls' = calls \o <<"get_video", "handler_return">>
    /\ pc' = "handled"
    /\ UNCHANGED <<log, position, committedOffset, committed, upserted, message,
                   parsed_event, http_data, video, index, closeCalls,
                   startResult, exc, restarts, request, response, previous>>

\* SaveVideo.execute, line 52: get_video fails (the service is unreachable)
\* or its answer does not validate as a VideoResponse
GetVideoRaises ==
    /\ pc = "get_video"
    /\ \E e \in {"ConnectionError", "ValidationError"} : Leave(e)
    /\ calls' = Append(calls, "get_video")
    /\ UNCHANGED <<log, position, committedOffset, committed, upserted, message,
                   parsed_event, http_data, video, index, restarts,
                   request, response, previous>>

\* SaveVideo.execute, line 66 -> repository.save: the document is indexed
\* and the handler returns
Save ==
    /\ pc = "save"
    /\ index' = SaveToIndex(index, video)
    /\ previous' = index[video.id]
    /\ upserted' = upserted \cup {video.id}
    /\ calls' = calls \o <<"index", "handler_return">>
    /\ pc' = "handled"
    /\ UNCHANGED <<log, position, committedOffset, committed, message,
                   parsed_event, http_data, video, closeCalls, startResult, exc, restarts,
                   request, response>>

\* an index call that fails after part of the document has been stored
SaveRaisesPartial ==
    /\ pc = "save"
    /\ index' = [index EXCEPT ![video.id] =
                    [index[video.id] EXCEPT !.id = video.id,
                                            !.title = video.title]]
    /\ calls' = Append(calls, "index")
    /\ Leave("TransportError")
    /\ UNCHANGED <<log, position, committedOffset, committed, upserted, message,
                   parsed_event, http_data, video, restarts,
                   request, response, previous>>

\* repository.save: the index call raises.  The call is one request that
\* carries the whole document under its id; the client raises when the
\* server refuses it or when no answer arrives, and in the second case
\* the server may have stored the document.
SaveRaises ==
    /\ pc = "save"
    /\ index' \in {index, SaveToIndex(index, video)}
    /\ calls' = Append(calls, "index")
    /\ Leave("TransportError")
    /\ UNCHANGED <<log, position, committedOffset, committed, upserted, message,
                   parsed_event, http_data, video, restarts,
                   request, response, previous>>

\* a commit issued as soon as the message is parsed, before the handler
CommitBeforeHandler ==
    /\ pc = "parsed"
    /\ committed' = committed \cup {message.offset}
    /\ committedOffset' = message.offset + 1
    /\ calls' = Append(calls, "commit")
    /\ pc' = "loop"
    /\ UNCHANGED <<log, position, upserted, message, parsed_event, http_data, video, index,
                   closeCalls, startResult, exc, restarts,
                   request, response, previous>>

\* consume, line 131: client.commit(message=message)
Commit ==
    /\ pc = "handled"
    /\ committed' = committed \cup {message.offset}
    /\ committedOffset' = message.offset + 1
    /\ calls' = Append(calls, "commit")
    /\ pc' = "loop"
    /\ UNCHANGED <<log, position, upserted, message, parsed_event, http_data, video, index,
                   closeCalls, startResult, exc, restarts,
                   request, response, previous>>

\* consume, line 131: commit raises KafkaException
CommitRaises ==
    /\ pc = "handled"
    /\ calls' = Append(calls, "commit")
    /\ Leave("KafkaException")
    /\ UNCHANGED <<log, position, committedOffset, committed, upserted, message,
                   parsed_event, http_data, video, index, restarts,
                   request, response, previous>>

\* start, line 80: SIGINT raises KeyboardInterrupt wherever the loop is
Interrupt ==
    /\ Running
    /\ Leave("KeyboardInterrupt")
    /\ UNCHANGED <<log, position, committedOffset, committed, upserted, message,
                   parsed_event, http_data, video, index, calls, restarts,
                   request, response, previous>>

\* the process is killed: nothing more runs, not even the finally clause
Crash ==
    /\ Running
    /\ pc' = "crashed"
    /\ UNCHANGED <<log, position, committedOffset, committed, upserted, message,
                   parsed_event, http_data, video, index, calls, closeCalls, startResult,
                   exc, restarts,
                   request, response, previous>>

\* __main__, lines 142-146: a new process with a new client; the group
\* resumes at its committed offset
Restart ==
    /\ pc \in {"stopped", "crashed"}
    /\ restarts < MaxRestarts
    /\ restarts' = restarts + 1
    /\ position' = committedOffset
    /\ pc' = "loop"
    /\ message' = NoMessage
    /\ parsed_event' = NoEvent
    /\ http_data' = NoResponse
    /\ video' = NoDoc
    /\ previous' = NoDoc
    /\ calls' = <<>>
    /\ closeCalls' = 0
    /\ startResult' = "running"
    /\ exc' = ""
    /\ UNCHANGED <<log, committedOffset, committed, upserted, index, request,
                   response>>

Next ==
    \/ PollNone
    \/ PollError
    \/ PollMessage
    \/ PollRaises
    \/ Parse
    \/ CallHandler
    \/ GetVideo
    \/ GetVideoRaises
    \/ Save
    \/ SaveRaises
    \/ Commit
    \/ CommitRaises
    \/ Interrupt
    \/ Crash
    \/ Restart

Spec == Init /\ [][Next]_vars

\* ------------------------------------------------------------------------
\* The parser on its own: every shape of message value, parsed once
\* ------------------------------------------------------------------------
ParserTables == DOMAIN table_to_entity \cup {"users", Absent}
ParserOps == DOMAIN Operation \cup {"x", Absent}
AfterImages == {AbsentImage, NullImage, RowImage(Row("v1", "t2", "L"))}
BeforeImages == {AbsentImage, NullImage, RowImage(Row("v1", "t1", "L"))}

ParserInputs ==
    { Data(enc, top, payload, source, table, op, after, before) :
        enc \in {"utf8", "bad"}, top \in {"invalid", "object", "other"},
        payload \in {"absent", "object", "other"},
        source \in {"absent", "object", "other"},
        table \in ParserTables, op \in ParserOps,
        after \in AfterImages, before \in BeforeImages }

InitParser ==
    /\ \E data \in ParserInputs :
        /\ log = <<data>>
        /\ message = Message(1, data)
    /\ position = 2
    /\ committedOffset = 1
    /\ committed = {}
    /\ upserted = {}
    /\ pc = "received"
    /\ parsed_event = NoEvent
    /\ http_data = NoResponse
    /\ video = NoDoc
    /\ index = [v \in VideoIds |-> NoDoc]
    /\ calls = <<"poll", "info:received">>
    /\ closeCalls = 0
    /\ startResult = "running"
    /\ exc = ""
    /\ restarts = 0
    /\ request = NoRequest
    /\ response = NoResult
    /\ previous = NoDoc

NextParser == Parse

SpecParser == InitParser /\ [][NextParser]_vars

\* ------------------------------------------------------------------------
\* The read side on its own: one search call on some state of the indices
\* ------------------------------------------------------------------------
InitSearch ==
    /\ log = <<>>
    /\ position = 1
    /\ committedOffset = 1
    /\ committed = {}
    /\ upserted = {}
    /\ pc = "loop"
    /\ message = NoMessage
    /\ parsed_event = NoEvent
    /\ http_data = NoResponse
    /\ video = NoDoc
    /\ index = [v \in VideoIds |-> NoDoc]
    /\ calls = <<>>
    /\ closeCalls = 0
    /\ startResult = "running"
    /\ exc = ""
    /\ restarts = 0
    /\ \E repo \in Repositories, page \in 1 .. MaxPage,
          per_page \in 1 .. MaxPerPage, exists \in BOOLEAN, n \in 0 .. MaxHits :
          \E matches \in [1 .. n -> DocsOf(repo)], assoc \in AssociationsOf(repo) :
              request = Request(repo, page, per_page, exists, matches, assoc)
    /\ response = NoResult
    /\ previous = NoDoc

Search ==
    /\ response = NoResult
    /\ response' = search(request)
    /\ UNCHANGED <<log, position, committedOffset, committed, upserted, pc,
                   message, parsed_event, http_data, video, index, calls,
                   closeCalls, startResult, exc, restarts, request, previous>>

NextSearch == Search

SpecSearch == InitSearch /\ [][NextSearch]_vars

\* ------------------------------------------------------------------------
\* The video handler on its own: one parsed create or update event of the
\* videos table, every payload under both operations, handled over an index
\* that is empty or holds a document of v1 written earlier
\* ------------------------------------------------------------------------
HandlerPayloads ==
    { RowImage(Row("v1", "t1", "L")), RowImage(Row("v1", "t2", "AGE_18")),
      RowImage(Row("v2", "t1", "L")), RowImage(Row("v1", "t1", "XX")),
      NullImage }

InitHandler ==
    /\ \E op \in {"c", "u"}, after \in HandlerPayloads :
        LET v == Envelope("videos", op, after, NullImage) IN
            /\ log = <<v>>
            /\ message = Message(1, v)
            /\ parsed_event = parse_debezium_message(v).event
    /\ \/ index = [v \in VideoIds |-> NoDoc] /\ upserted = {}
       \/ /\ \E data \in Responses :
                index = SaveToIndex([v \in VideoIds |-> NoDoc],
                                    BuildVideo(Row("v1", "t1", "L"), data))
          /\ upserted = {"v1"}
    /\ position = 2
    /\ committedOffset = 1
    /\ committed = {}
    /\ pc = "parsed"
    /\ http_data = NoResponse
    /\ video = NoDoc
    /\ calls = <<"poll", "info:received", "parser">>
    /\ closeCalls = 0
    /\ startResult = "running"
    /\ exc = ""
    /\ restarts = 0
    /\ request = NoRequest
    /\ response = NoResult
    /\ previous = NoDoc

NextHandler ==
    \/ CallHandler
    \/ GetVideo
    \/ GetVideoRaises
    \/ Save
    \/ SaveRaises

SpecHandler == InitHandler /\ [][NextHandler]_vars

\* ------------------------------------------------------------------------
\* Properties
\* ------------------------------------------------------------------------
Made(tag) == tag \in Range(calls)
Count(tag) == Cardinality({ i \in DOMAIN calls : calls[i] = tag })
Before(a, b) == \E i, j \in DOMAIN calls : i < j /\ calls[i] = a /\ calls[j] = b

\* the handler was called and an exception left it
HandlerRaised == pc = "stopped" /\ Made("handler") /\ ~Made("handler_return")

\* C1: commit-after-success.  In the consume call in which the handler
\* raised, commit is not called and the message is not among the committed
\* ones; and whenever a commit is made, it is made for the current message
\* after its handler call has returned.
C1_CommitAfterSuccess ==
    /\ [](HandlerRaised => ~Made("commit") /\ message.offset \notin committed)
    /\ [][committed' # committed =>
            /\ Made("handler_return")
            /\ exc = ""
            /\ committed' = committed \cup {message.offset}]_vars

C1_Witness ==
    /\ HandlerRaised
    /\ exc \in {"ValueError", "ConnectionError", "TransportError"}
    /\ committed # {}

\* the last consume call is over and was not cut short by SIGINT or a kill
ConsumeEnded ==
    /\ calls # <<>>
    /\ \/ pc = "loop"
       \/ pc = "stopped" /\ exc # "KeyboardInterrupt"

\* the polled message had no error and a payload that parsed to an event
\* whose entity kind is in the routing table
RoutedMessage ==
    /\ message.kind = "message"
    /\ message.value.bytes = "data"
    /\ Made("parser")
    /\ parsed_event # NoEvent
    /\ parsed_event.entity \in {"Video"}

\* C2 as stated: for every routed message one consume call invokes the
\* handler exactly once and then commits exactly once, after the handler
\* returned.
C2_Original ==
    ConsumeEnded /\ RoutedMessage =>
        /\ Count("handler") = 1
        /\ Count("commit") = 1
        /\ Before("handler_return", "commit")

\* C2 amended: the handler is invoked exactly once with the parsed event;
\* if it returns, commit is called exactly once, after the return, with
\* that message; if it raises, commit is not called.
C2_HandlerThenCommit ==
    ConsumeEnded /\ RoutedMessage =>
        /\ Count("handler") = 1
        /\ parsed_event = parse_debezium_message(message.value).event
        /\ Made("handler_return") =>
              /\ Count("commit") = 1
              /\ Before("handler_return", "commit")
              /\ calls[Len(calls)] = "commit"
              /\ pc = "loop" => message.offset \in committed
        /\ ~Made("handler_return") => Count("commit") = 0

C2_Witness ==
    /\ ConsumeEnded /\ RoutedMessage
    /\ pc = "loop"
    /\ Made("index")
    /\ message.offset \in committed

\* the message at offset o is a video create or update
VideoUpsertMessage(o) ==
    LET r == parse_debezium_message(log[o]) IN
        /\ r.ret = "event"
        /\ r.event.entity = "Video"
        /\ r.event.operation \in {"CREATE", "UPDATE"}

\* C3: write before commit.  Every video create/update message whose offset
\* is committed (by a commit call with it, or by lying below the group's
\* committed offset) has had its projection upserted into the index.
C3_WriteBeforeCommit ==
    \A o \in committed \cup (1 .. committedOffset - 1) :
        VideoUpsertMessage(o) =>
            LET id == parse_debezium_message(log[o]).event.payload.row.id IN
                /\ id \in upserted
                /\ index[id] # NoDoc
                /\ index[id].id = id

C3_Witness ==
    /\ restarts > 0
    /\ \E o \in committed : VideoUpsertMessage(o) /\ o > 1
    /\ pc = "loop"

\* what a step leaves alone when consume returns without handling
NothingHandled ==
    /\ pc' = "loop"
    /\ parsed_event' = NoEvent
    /\ Range(calls') \cap {"parser", "handler", "get_video", "index", "commit"} = {}
    /\ UNCHANGED <<index, committed, committedOffset, upserted, closeCalls,
                   startResult, exc>>

\* C4: a poll that yields no message, a message with an error, or a message
\* with an empty payload makes consume return without calling the parser,
\* a handler or commit, and without changing the index.
C4_NothingOnNoMessage ==
    [][ ( /\ pc = "loop"
          /\ pc' \in {"loop", "received", "parsed", "handled"}
          /\ \/ message'.kind \in {"None", "error"}
             \/ message'.value.bytes # "data" )
        => NothingHandled ]_vars

C4_Witness ==
    /\ pc = "loop"
    /\ message.kind = "message"
    /\ message.value.bytes # "data"
    /\ message.offset > 1
    /\ index["v1"] # NoDoc

\* the parser was called on the current message and yielded no event
ParserYieldedNone ==
    /\ Made("parser")
    /\ parse_debezium_message(message.value).ret = "None"

\* C5: when the parser yields no event, consume logs the failure and
\* returns: no handler, no commit of that message (in any delivery), and
\* the loop is back at the poll unless SIGINT or a kill ended the process.
C5_UnparseableSkipped ==
    /\ ParserYieldedNone =>
          /\ Made("error:failed_to_parse")
          /\ ~Made("handler") /\ ~Made("commit")
          /\ parsed_event = NoEvent
          /\ pc \in {"loop", "stopped", "crashed"}
          /\ pc = "stopped" => exc = "KeyboardInterrupt"
    /\ \A o \in committed : parse_debezium_message(log[o]).ret # "None"

C5_Witness ==
    /\ ParserYieldedNone
    /\ pc = "loop"
    /\ restarts > 0
    /\ message.offset = 1

\* C6: client.close has been called exactly once whenever start has stopped
\* iterating, whatever the exception, and not at all while it iterates.
C6_ClosedOnceOnExit ==
    /\ pc = "stopped" => closeCalls = 1
    /\ Running => closeCalls = 0

C6_Witness ==
    /\ pc = "stopped"
    /\ startResult = "raised"
    /\ closeCalls = 1

\* the exceptions of a validation, enrichment or index-write fault raised
\* by the handler, and of a routing fault raised by the router lookup
HandlingFaults ==
    {"ValueError", "KeyError", "TypeError", "ConnectionError",
     "ValidationError", "TransportError"}

\* C7 as stated: a validation, enrichment, index-write or routing fault
\* leaves the message uncommitted and the loop goes on: it does not stop.
\* Stated here for the faults the handler raises; the routing fault stops
\* the loop in the same way (C9).
C7_LoopContinuesAfterFault ==
    Made("handler") /\ exc \in HandlingFaults =>
        /\ message.offset \notin committed
        /\ pc # "stopped"

\* C8: KeyboardInterrupt or KafkaException leaving consume ends start
\* normally with the client closed, and nothing is polled afterwards.
C8_GracefulStop ==
    /\ [](pc = "stopped" /\ exc \in {"KeyboardInterrupt", "KafkaException"} =>
              startResult = "returned" /\ closeCalls = 1)
    /\ [][pc = "stopped" /\ pc' # "loop" =>
              UNCHANGED <<calls, position, message, committed, index>>]_vars
    /\ [][pc = "stopped" /\ pc' = "loop" => restarts' = restarts + 1]_vars

C8_Witness ==
    /\ pc = "stopped"
    /\ exc = "KafkaException"
    /\ Made("commit")
    /\ startResult = "returned"

\* the current message parsed to an event of a kind without a handler
UnroutedEvent ==
    /\ Made("parser")
    /\ parsed_event # NoEvent
    /\ parsed_event.entity \in {"Category", "CastMember", "Genre"}

\* C9: an event for categories, cast_members or genres makes consume raise
\* (KeyError leaves start): no handler is invoked, the message is not
\* committed and consume does not return.
C9_RoutingFault ==
    UnroutedEvent =>
        /\ ~Made("handler") /\ ~Made("commit")
        /\ message.offset \notin committed
        /\ committedOffset <= message.offset
        /\ pc \in {"parsed", "stopped", "crashed"}
        /\ pc = "stopped" /\ exc # "KeyboardInterrupt" =>
              exc = "KeyError" /\ startResult = "raised"

C9_Witness ==
    /\ UnroutedEvent
    /\ pc = "stopped"
    /\ exc = "KeyError"
    /\ parsed_event.entity = "Genre"

\* the message value is a well-formed envelope for a known table and
\* operation code that carries the image the operation selects
KnownEnvelope(data) ==
    /\ data.enc = "utf8" /\ data.top = "object"
    /\ data.payload = "object" /\ data.source = "object"
    /\ data.table \in {"categories", "cast_members", "genres", "videos"}
    /\ data.op \in {"c", "u", "d", "r"}
    /\ (IF data.op = "d" THEN data.before ELSE data.after).st # "absent"

\* C10: for each of the four tables and each of the codes c, u, d, r the
\* parser returns an event with the entity mapped from the table, the
\* operation mapped from the code, and the "after" image as payload for
\* c, u, r and the "before" image for d.
C10_ParserMapping ==
    Made("parser") /\ KnownEnvelope(message.value) =>
        LET data == message.value IN
            /\ pc = "parsed"
            /\ parsed_event.entity =
                  CASE data.table = "categories" -> "Category"
                    [] data.table = "cast_members" -> "CastMember"
                    [] data.table = "genres" -> "Genre"
                    [] data.table = "videos" -> "Video"
            /\ parsed_event.operation =
                  CASE data.op = "c" -> "CREATE"
                    [] data.op = "u" -> "UPDATE"
                    [] data.op = "d" -> "DELETE"
                    [] data.op = "r" -> "READ"
            /\ parsed_event.payload =
                  IF data.op = "d" THEN data.before ELSE data.after

C10_Witness ==
    /\ Made("parser")
    /\ KnownEnvelope(message.value)
    /\ message.value.op = "d"
    /\ message.value.table = "genres"
    /\ message.value.after.st = "row"
    /\ parsed_event.payload = message.value.before
    /\ parsed_event.payload.st = "row"

\* the message value is a JSON object in which the "payload" key, the
\* "source" key, the "table" key or the "op" key is missing, or the table
\* is not one of the four known ones, or the code is not one of c, u, d, r
UnknownOrMissing(data) ==
    /\ data.enc = "utf8" /\ data.top = "object"
    /\ \/ data.payload = "absent"
       \/ data.payload = "object" /\ data.source = "absent"
       \/ /\ data.payload = "object" /\ data.source = "object"
          /\ \/ data.table \notin {"categories", "cast_members", "genres", "videos"}
             \/ data.op \notin {"c", "u", "d", "r"}

\* C11: a message with an unknown table, an unknown operation code, or a
\* missing payload/source/table/op key makes the parser return None and
\* log exactly one error.
C11_UnknownYieldsNone ==
    Made("parser") /\ UnknownOrMissing(message.value) =>
        /\ pc = "loop"
        /\ exc = ""
        /\ parsed_event = NoEvent
        /\ Count("parser:error") = 1

C11_Witness ==
    /\ Made("parser")
    /\ UnknownOrMissing(message.value)
    /\ message.value.table = "users"
    /\ message.value.op = Absent
    /\ message.value.after.st = "row"
    /\ Count("parser:error") = 1

\* the message value is a well-formed envelope for a known table and
\* operation code whose selected image is missing: the key is absent or
\* its value is null
MissingImage(data) ==
    /\ data.enc = "utf8" /\ data.top = "object"
    /\ data.payload = "object" /\ data.source = "object"
    /\ data.table \in {"categories", "cast_members", "genres", "videos"}
    /\ data.op \in {"c", "u", "d", "r"}
    /\ (IF data.op = "d" THEN data.before ELSE data.after).st \in {"absent", "null"}

\* C12: a message whose expected image is missing (key absent or value
\* null) yields no event: the parser returns None, never a ParsedEvent
\* with a null payload.
C12_MissingImageYieldsNone ==
    Made("parser") /\ MissingImage(message.value) =>
        /\ pc = "loop"
        /\ parsed_event = NoEvent

\* C13: parser totality.  Whatever the bytes of the message value, the
\* parser returns a ParsedEvent or None: no exception leaves it.
C13_ParserTotal ==
    Made("parser") =>
        /\ exc = ""
        /\ pc \in {"loop", "parsed"}

\* the three handler methods invoked by the current consume call
Invoked ==
    { m \in {"handle_created", "handle_updated", "handle_deleted"} : Made(m) }

\* C14: dispatch.  A handler call invokes exactly one method, chosen by the
\* operation, on the parsed event; for any other operation it invokes
\* none, logs one info message and returns without raising.
C14_DispatchCorrect ==
    Made("handler") =>
        LET operation == parsed_event.operation IN
            /\ Count("handler") = 1
            /\ operation = "CREATE" =>
                  Invoked = {"handle_created"} /\ Count("handle_created") = 1
            /\ operation = "UPDATE" =>
                  Invoked = {"handle_updated"} /\ Count("handle_updated") = 1
            /\ operation = "DELETE" =>
                  Invoked = {"handle_deleted"} /\ Count("handle_deleted") = 1
            /\ operation \in {"CREATE", "UPDATE", "DELETE"} =>
                  Count("info:unknown_operation") = 0
            /\ operation \notin {"CREATE", "UPDATE", "DELETE"} =>
                  /\ Invoked = {}
                  /\ Count("info:unknown_operation") = 1
                  /\ Made("handler_return")
                  /\ exc \notin HandlingFaults
            /\ Made("get_video") /\ pc \in {"save", "handled"} =>
                  video.id = parsed_event.payload.row.id

C14_Witness ==
    /\ Made("handler")
    /\ parsed_event.operation = "READ"
    /\ Count("info:unknown_operation") = 1
    /\ Made("commit")

\* the current consume call has upserted the projection of its message
ProjectionWritten == Made("index") /\ Made("handler_return")

\* the keys of the index under which a document with identifier id lies
DocumentsOf(id) == { k \in DOMAIN index : index[k].id = id }

\* the identifiers of the entities of a response list
Ids(entities) == { entities[i] : i \in DOMAIN entities }

\* the scalar fields of a Save-input
Scalars ==
    {"id", "title", "launch_year", "rating", "created_at", "updated_at",
     "is_active"}

\* C15: enrichment merge.  The document written for a Save-input with
\* identifier X lies under X, is the only one with that identifier, holds
\* as categories, cast_members and genres the sets of identifiers of the
\* response, as banner the banner of the response, and as scalar fields
\* those of the Save-input, not those of the response.
C15_EnrichmentMerge ==
    ProjectionWritten =>
        LET input == parsed_event.payload.row
            doc == index[input.id]
        IN /\ DocumentsOf(input.id) = {input.id}
           /\ doc.categories = Ids(http_data.categories)
           /\ doc.cast_members = Ids(http_data.cast_members)
           /\ doc.genres = Ids(http_data.genres)
           /\ doc.banner = http_data.banner
           /\ \A f \in Scalars : doc[f] = input[f]
           /\ \A f \in {"id", "title", "launch_year"} : doc[f] # http_data[f]

C15_Witness ==
    /\ ProjectionWritten
    /\ parsed_event.payload.row = Row("v1", "t2", "AGE_18")
    /\ http_data = Response(<<"c2", "c2">>, <<"m1">>, <<>>, "b2")
    /\ index["v1"].categories = {"c2"}
    /\ index["v1"].is_active = "false"

\* a step in which the projection of event E is upserted while the index
\* holds, under E's identifier, a document with E's scalar fields: E has
\* been applied before and nothing else has been applied to it since
AppliedAgain ==
    /\ pc = "save" /\ pc' = "handled"
    /\ \A f \in Scalars : index[video.id][f] = video[f]

Related == {"categories", "cast_members", "genres"}

\* C17: full replace.  Whenever the document of identifier X changes, it
\* is by the upsert of an event for X, and its categories, cast_members
\* and genres become exactly the sets of the enrichment fetch of that
\* event: nothing of what was stored before remains unless fetched again.
C17_FullReplace ==
    /\ [][\A k \in DOMAIN index :
            index'[k] # index[k] =>
                /\ pc = "save" /\ k = video.id
                /\ index'[k].categories = Ids(http_data.categories)
                /\ index'[k].cast_members = Ids(http_data.cast_members)
                /\ index'[k].genres = Ids(http_data.genres)]_vars
    /\ [][pc = "save" /\ pc' = "handled" =>
            \A f \in Related : index'[video.id][f] = Ids(http_data[f])]_vars

C17_Witness ==
    /\ ProjectionWritten
    /\ message.offset = 2
    /\ 1 \in committed
    /\ previous.categories = {"c1", "c2"}
    /\ previous.genres = {"g1"}
    /\ index["v1"].categories = {"c2"}
    /\ index["v1"].genres = {}

\* the search call has been made
Searched == response # NoResult

\* the documents of hits that pass validation, in their order
ValidOnes(hits) == SelectSeq(hits, Validates)

\* the call returned, without raising, the entities of docs in that order
ReturnedEntitiesOf(docs) ==
    /\ response.ret = "ok" /\ response.exc = ""
    /\ Len(response.entities) = Len(docs)
    /\ \A i \in DOMAIN docs : response.entities[i].id = docs[i].id

\* C18: skip and log.  A search of the category, cast-member or video
\* repository whose index response holds N documents, K of them failing
\* validation, returns the N-K valid ones in their order, logs K errors
\* and does not raise.
C18_SkipAndLog ==
    /\ Searched /\ request.exists
    /\ request.repo \in {"category", "cast_member", "video"}
    => /\ ReturnedEntitiesOf(ValidOnes(Hits(request)))
       /\ response.errors = Len(Hits(request)) - Len(ValidOnes(Hits(request)))

C18_Witness ==
    /\ Searched /\ request.exists
    /\ request.repo = "cast_member"
    /\ Len(Hits(request)) = 3
    /\ ~Validates(Hits(request)[1])
    /\ Validates(Hits(request)[2])
    /\ response.errors = 2
    /\ Len(response.entities) = 1

\* no document of the list stores a categories key of its own
PlainDocuments(docs) == \A i \in DOMAIN docs : docs[i].categories = "absent"

\* C19: the genre search skips and logs as the others do: with valid and
\* malformed documents in the genre index (one holding only a name, say)
\* it returns the valid genres, logs one error per malformed document and
\* does not raise.
C19_GenreSkipAndLog ==
    /\ Searched /\ request.exists
    /\ request.repo = "genre"
    /\ PlainDocuments(request.matches)
    => /\ ReturnedEntitiesOf(ValidOnes(Hits(request)))
       /\ response.errors = Len(Hits(request)) - Len(ValidOnes(Hits(request)))

\* every match is a valid document
AllValid(docs) == \A i \in DOMAIN docs : Validates(docs[i])

Interrupted == pc = "stopped" /\ exc = "KeyboardInterrupt"

\* C21: an interrupt does not cut a message in half.  When the loop has
\* stopped on SIGINT, the handling the current message had begun is
\* complete: a fetch was followed by the upsert, and a written projection
\* by the commit of its offset.
C21_NoCutOnInterrupt ==
    Interrupted =>
        /\ Made("get_video") => Made("index")
        /\ ProjectionWritten => Made("commit") /\ message.offset \in committed

\* a step that polls the next message of the partition
PollsNext == position' = position + 1 /\ restarts' = restarts

\* the consume call of the current message is over: the handler returned
\* and commit was issued last, or the message was skipped (empty, or not
\* parseable) without a handler call
HandlingEnded ==
    \/ message.kind # "message"
    \/ IsEmpty(message.value)
    \/ calls[Len(calls)] = "error:failed_to_parse" /\ ~Made("handler")
    \/ calls[Len(calls)] = "commit" /\ Before("handler_return", "commit")

\* the consumer is between the poll of a message and the end of its handling
InFlight == pc \in {"received", "parsed", "get_video", "save", "handled"}

\* C22: one message at a time, in the order polled.  A poll is issued only
\* when the handling of the message polled before has ended, it fetches the
\* offset after that message, and what is parsed, handled and committed is
\* always the one message polled last.
C22_OneMessageInOrder ==
    /\ [][PollsNext =>
            /\ pc = "loop"
            /\ HandlingEnded
            /\ message'.offset = position
            /\ message.kind = "message" => message'.offset = message.offset + 1
            /\ message'.value = log'[position]]_vars
    /\ [](InFlight =>
            /\ message.kind = "message"
            /\ message.offset = position - 1
            /\ message.value = log[message.offset]
            /\ Count("poll") = 1 /\ calls[1] = "poll"
            /\ Count("parser") <= 1 /\ Count("handler") <= 1)
    /\ [][committed' # committed =>
            committed' = committed \cup {position - 1}]_vars

C22_Witness ==
    /\ InFlight
    /\ pc = "get_video"
    /\ message.offset = 2
    /\ 1 \in committed
    /\ restarts = 0

\* the handler was called with a video create/update event whose payload
\* is not a row, lacks a column, or has a rating outside the enumeration
ValidationFault ==
    /\ Made("handler")
    /\ parsed_event.entity = "Video"
    /\ parsed_event.operation \in {"CREATE", "UPDATE"}
    /\ \/ parsed_event.payload.st # "row"
       \/ parsed_event.payload.row.rating \notin Rating

\* C23: validation fault.  A create/update payload with a rating outside
\* the enumeration (or that otherwise does not make a Save-input) makes the
\* handler raise before the enrichment client is called: no index write,
\* and the offset is not committed.
C23_ValidationFault ==
    /\ [](ValidationFault =>
            /\ pc = "stopped"
            /\ exc \in {"ValueError", "KeyError", "TypeError"}
            /\ parsed_event.payload.st = "row" => exc = "ValueError"
            /\ startResult = "raised"
            /\ ~Made("handler_return")
            /\ ~Made("get_video") /\ ~Made("index") /\ ~Made("commit")
            /\ message.offset \notin committed
            /\ committedOffset <= message.offset)
    /\ [][ValidationFault' /\ ~ValidationFault =>
            UNCHANGED <<index, committed, committedOffset, upserted>>]_vars

C23_Witness ==
    /\ ValidationFault
    /\ parsed_event.payload.st = "row"
    /\ parsed_event.payload.row.rating = "XX"
    /\ exc = "ValueError"
    /\ restarts > 0
    /\ message.offset = 2

\* get_video was called for the current message and gave no response
EnrichmentFault == Made("get_video") /\ http_data = NoResponse

\* C24: enrichment fault.  When get_video fails or its answer does not
\* validate, execute raises: no upsert is attempted, the index is as it
\* was, and the offset is not committed.
C24_EnrichmentFault ==
    /\ [](EnrichmentFault =>
            /\ pc = "stopped"
            /\ exc \in {"ConnectionError", "ValidationError"}
            /\ startResult = "raised"
            /\ ~Made("handler_return")
            /\ ~Made("index") /\ ~Made("commit")
            /\ message.offset \notin committed
            /\ committedOffset <= message.offset)
    /\ [][EnrichmentFault' /\ ~EnrichmentFault =>
            UNCHANGED <<index, committed, committedOffset, upserted>>]_vars

C24_Witness ==
    /\ EnrichmentFault
    /\ exc = "ValidationError"
    /\ message.offset = 2
    /\ index["v1"] # NoDoc
    /\ parsed_event.payload.row.id = "v1"

\* a step in which the index call of repository.save raises
IndexWriteFault == pc = "save" /\ pc' = "stopped" /\ exc' = "TransportError"

\* C25 as stated: when the upsert fails the index holds, under the
\* identifier, the complete previous document or none.
C25_Original ==
    [][IndexWriteFault => index'[video.id] = index[video.id]]_vars

\* C25 amended: when the index call raises, the fault propagates out of
\* the handler and the offset is not committed; the index is either as it
\* was or holds the complete new projection under the identifier (the
\* write was applied and its answer lost), never a mix of the two.
C25_IndexWriteFault ==
    /\ [][IndexWriteFault =>
            /\ index' \in {index, [index EXCEPT ![video.id] = video]}
            /\ startResult' = "raised"
            /\ UNCHANGED <<committed, committedOffset, upserted>>]_vars
    /\ [](Made("index") /\ ~Made("handler_return") =>
            /\ pc = "stopped"
            /\ exc = "TransportError"
            /\ startResult = "raised"
            /\ ~Made("commit")
            /\ message.offset \notin committed
            /\ committedOffset <= message.offset
            /\ Cardinality(DocumentsOf(video.id)) <= 1)

C25_Witness ==
    /\ Made("index") /\ ~Made("handler_return")
    /\ exc = "TransportError"
    /\ index[video.id] = video
    /\ video.id \notin upserted
    /\ message.offset \notin committed

\* the handler was called with a video create or update event
UpsertHandling ==
    /\ Made("handler")
    /\ parsed_event.entity = "Video"
    /\ parsed_event.operation \in {"CREATE", "UPDATE"}

\* C26: handle_created and handle_updated are observationally identical.
\* For a CREATE and for an UPDATE event alike, the outcome and the index
\* are one function of the payload, the enrichment answer (or fault), the
\* index fault and the index before, in which the operation does not
\* occur: a payload that makes no Save-input raises its fault with the
\* index untouched; otherwise the handler returns only after get_video and
\* the index call, and the index is the one before with the merge of
\* payload and answer under the payload's identifier.
C26_CreatedUpdatedSame ==
    /\ [](UpsertHandling =>
            LET built == SaveVideoInput(parsed_event.payload) IN
                /\ Invoked # {} /\ Invoked \subseteq {"handle_created", "handle_updated"}
                /\ built.ret = "raise" =>
                       /\ pc = "stopped" /\ exc = built.exc
                       /\ ~Made("get_video") /\ ~Made("index")
                /\ Made("handler_return") =>
                       /\ built.ret = "ok"
                       /\ Before("get_video", "index")
                       /\ Before("index", "handler_return")
                       /\ index[built.input.id] = BuildVideo(built.input, http_data)
                /\ (pc = "stopped" /\ ~Made("handler_return")) =>
                       exc \in IF built.ret = "raise" THEN {built.exc}
                               ELSE IF ~Made("get_video") THEN {"KeyboardInterrupt"}
                               ELSE IF ~Made("index")
                                    THEN {"KeyboardInterrupt", "ConnectionError",
                                          "ValidationError"}
                               ELSE {"TransportError"})
    /\ [][UpsertHandling /\ index' # index =>
            /\ pc = "save"
            /\ index' = [index EXCEPT ![parsed_event.payload.row.id] =
                            BuildVideo(parsed_event.payload.row, http_data)]]_vars
    /\ [][UpsertHandling /\ pc = "save" /\ pc' = "handled" =>
            index' = [index EXCEPT ![parsed_event.payload.row.id] =
                            BuildVideo(parsed_event.payload.row, http_data)]]_vars

\* an UPDATE event whose payload the topic carries as an insert writes the
\* document of an identifier that has none, as a CREATE does
C26_Witness ==
    /\ UpsertHandling /\ ProjectionWritten
    /\ parsed_event.operation = "UPDATE"
    /\ parsed_event.payload.row = Row("v2", "t1", "L")
    /\ previous = NoDoc
    /\ index["v1"] # NoDoc
    /\ index["v2"] = BuildVideo(parsed_event.payload.row, http_data)

\* the handler was called with a video DELETE event
DeleteHandling ==
    /\ Made("handler")
    /\ parsed_event.entity = "Video"
    /\ parsed_event.operation = "DELETE"

\* C27: a video DELETE event is a no-op on the index.  Handling it changes
\* no document (the document of the deleted video stays), calls the
\* enrichment client not at all, returns without raising, and the consume
\* call then commits the offset of the delete message.
C27_DeleteNoOp ==
    /\ [](DeleteHandling =>
            /\ Invoked = {"handle_deleted"}
            /\ ~Made("get_video") /\ ~Made("index")
            /\ Made("handler_return")
            /\ exc \notin HandlingFaults
            /\ pc \in {"handled", "loop", "stopped", "crashed"}
            /\ pc = "stopped" => exc \in {"KeyboardInterrupt", "KafkaException"}
            /\ pc = "loop" =>
                   /\ Before("handler_return", "commit")
                   /\ message.offset \in committed
                   /\ committedOffset = message.offset + 1)
    /\ [][DeleteHandling' => index' = index]_vars

C27_Witness ==
    /\ DeleteHandling
    /\ pc = "loop"
    /\ message.offset = 2
    /\ 2 \in committed
    /\ parsed_event.payload.row.id = "v1"
    /\ index["v1"] # NoDoc
    /\ index["v1"].id = "v1"

\* the categories the association documents give for genre id g
AssociatedCategories(g) ==
    { a.category_id : a \in { x \in request.assoc : x.genre_id = g } }

\* C28: genre two-step join.  A genre search over documents that all have
\* an id, some of which store a categories field of their own, does not
\* raise, and every genre it returns carries exactly the category ids the
\* association index holds for its id (none when it holds none).
C28_GenreJoin ==
    /\ Searched /\ request.exists
    /\ request.repo = "genre"
    /\ \A i \in DOMAIN request.matches : request.matches[i].id # Absent
    => /\ response.ret = "ok"
       /\ \A i \in DOMAIN response.entities :
             response.entities[i].categories =
                 AssociatedCategories(response.entities[i].id)

\* the handler was called with a snapshot read event of a routed entity
ReadHandling ==
    /\ Made("handler")
    /\ parsed_event.entity \in DOMAIN entity_to_handler
    /\ parsed_event.operation = "READ"

\* C29: a snapshot read event (operation code r) of a routed entity kind
\* parses to an event, is dispatched to none of the three handler methods,
\* causes no enrichment call and no index write, and the consume call
\* commits its offset all the same.
C29_ReadEvent ==
    /\ [](message.kind = "message" /\ ~IsEmpty(message.value)
            /\ message.value.table \in {"videos"} /\ message.value.op = "r"
            /\ KnownEnvelope(message.value) /\ Made("parser") =>
                /\ parsed_event.operation = "READ"
                /\ parsed_event.entity = "Video"
                /\ ~Made("error:failed_to_parse")
                /\ pc # "stopped" \/ exc \in {"KeyboardInterrupt", "KafkaException"})
    /\ [](ReadHandling =>
            /\ Invoked = {}
            /\ ~Made("get_video") /\ ~Made("index")
            /\ Made("handler_return")
            /\ exc \notin HandlingFaults
            /\ pc = "loop" =>
                   /\ Before("handler_return", "commit")
                   /\ message.offset \in committed
                   /\ committedOffset = message.offset + 1)
    /\ [][ReadHandling' => index' = index /\ upserted' = upserted]_vars

C29_Witness ==
    /\ ReadHandling
    /\ pc = "loop"
    /\ message.offset = 2
    /\ committed = {1, 2}
    /\ index["v1"] = NoDoc
    /\ index["v2"] # NoDoc

\* C30: upsert frame.  A document of the index changes only by the index
\* call made for a create/update event, and only the one keyed by that
\* event's identifier; every document lies under its own identifier, so
\* no identifier has more than one.
C30_UpsertFrame ==
    /\ [][\A k \in DOMAIN index :
            index'[k] # index[k] =>
                /\ pc = "save"
                /\ parsed_event.operation \in {"CREATE", "UPDATE"}
                /\ k = parsed_event.payload.row.id
                /\ index'[k].id = k]_vars
    /\ [](\A k \in DOMAIN index : index[k] # NoDoc => index[k].id = k)
    /\ [](\A id \in VideoIds : Cardinality(DocumentsOf(id)) <= 1)

C30_Witness ==
    /\ ProjectionWritten
    /\ message.offset = 2
    /\ parsed_event.payload.row.id = "v2"
    /\ previous = NoDoc
    /\ index["v2"] # NoDoc
    /\ index["v1"].id = "v1"
    /\ index["v1"].categories = {"c1", "c2"}
    /\ Cardinality(DocumentsOf("v1")) = 1
    /\ Cardinality(DocumentsOf("v2")) = 1

====
